---- MODULE Spec2Model ----
(***************************************************************************)
(* ScheduledOptimizer, LinearSchedule and CyclicalLinearSchedule of        *)
(* oeciml/torchmodules/optimizer.py.                                       *)
(*                                                                         *)
(* Hyperparameter values are Python numbers; they are modelled as exact    *)
(* rationals <<numerator, denominator>> (denominator > 0, lowest terms).   *)
(* None is <<0, 0>>.  An uncaught Python exception ends the program: its   *)
(* name is stored in exc and no operation runs afterwards.                 *)
(***************************************************************************)
EXTENDS Integers, Sequences, FiniteSets

VARIABLES
    optim,      \* optim[w]: the inner optimizer of wrapper w: state, param_groups
    sched,      \* sched[w][s]: the schedule objects attached in wrapper w's groups
    built,      \* built[w]: ScheduledOptimizer(optim[w]) has returned
    saved,      \* the last value returned by state_dict()
    exc,        \* "" or the name of the exception that ended the program
    log,        \* history: log[w][s] = the schedule.step calls made on sched[w][s]
    calls,      \* history: per wrapper, the completed step() and load_state_dict() calls
    rt          \* history: which wrapper saved, which loaded, and the steps since

vars == <<optim, sched, built, saved, exc, log, calls, rt>>

\* ------------------------------------------------------------ bounds
\* wrapper.step() calls per wrapper
MaxSteps == 3
\* state_dict() calls in a run
MaxSaves == 1
\* load_state_dict() calls in a run
MaxLoads == 1
\* direct schedule.step calls past the end of the schedule's nominal range
Overrun == 2

\* ------------------------------------------------------------ numbers
None == <<0, 0>>

Abs(n) == IF n < 0 THEN -n ELSE n

RECURSIVE GCD(_, _)
GCD(a, b) == IF b = 0 THEN a ELSE GCD(b, a % b)

\* n/d in lowest terms with a positive denominator (d # 0)
Norm(n, d) ==
    LET g == GCD(Abs(n), Abs(d))
        sgn == IF d < 0 THEN -1 ELSE 1
    IN <<(sgn * n) \div g, (sgn * d) \div g>>

Num(n) == <<n, 1>>
Rat(n, d) == Norm(n, d)
Add(a, b) == Norm(a[1] * b[2] + b[1] * a[2], a[2] * b[2])
Sub(a, b) == Norm(a[1] * b[2] - b[1] * a[2], a[2] * b[2])
Mul(a, b) == Norm(a[1] * b[1], a[2] * b[2])
\* a / b; Python raises ZeroDivisionError when b is zero, callers test IsZero first
Div(a, b) == Norm(a[1] * b[2], a[2] * b[1])
Lt(a, b) == a[1] * b[2] < b[1] * a[2]
Le(a, b) == a[1] * b[2] <= b[1] * a[2]
IsZero(a) == a[1] = 0

\* ------------------------------------------------------------ groups
\* get_deep_attr(group, path) / set_deep_attr(group, path, value) on a
\* parameter group with a one-component path
GetDeepAttr(group, path) == group[path]
SetDeepAttr(group, path, value) == [group EXCEPT ![path] = value]

\* ------------------------------------------------------------ schedules
\* LinearSchedule.__init__
LinearSchedule(total_steps, max_value, start_value, path, warmup, warmup_rate) ==
    [kind |-> "LinearSchedule",
     path |-> path,
     start_value |-> start_value,
     max_value |-> max_value,
     warmup |-> warmup,
     warmup_rate |-> warmup_rate,
     total_steps |-> total_steps,
     idx |-> 0]

\* CyclicalLinearSchedule.__init__
CyclicalLinearSchedule(steps_per_epoch, max_value, min_value, epochs_per_cycle, path) ==
    [kind |-> "CyclicalLinearSchedule",
     path |-> path,
     max_value |-> max_value,
     min_value |-> min_value,
     epochs_per_cycle |-> epochs_per_cycle,
     steps_per_epoch |-> steps_per_epoch,
     num_epoch |-> 0,
     idx |-> 0]

\* LinearSchedule.state_dict / CyclicalLinearSchedule.state_dict
ScheduleStateDict(self) == [idx |-> self.idx]

\* faulty variant: load_state_dict that does not restore idx
ScheduleLoadStateDictKeepsIdx(self, state) == self

\* LinearSchedule.load_state_dict / CyclicalLinearSchedule.load_state_dict
ScheduleLoadStateDict(self, state) == [self EXCEPT !.idx = state.idx]

\* the lazy max_value lookup both step methods start with
ResolveMaxValue(self, group) ==
    IF self.max_value = None THEN GetDeepAttr(group, self.path) ELSE self.max_value

\* warmup_steps = self.total_steps * self.warmup_rate
WarmupSteps(self) == Mul(Num(self.total_steps), self.warmup_rate)

\* faulty variant: the warmup ramp with start_value and max_value exchanged
LinearValueRampSwapped(self, max_value, idx) ==
    LET warmup_steps == WarmupSteps(self)
    IN IF Lt(Num(idx), warmup_steps)
       THEN LET progress == Div(Num(idx), warmup_steps)
            IN Add(max_value, Mul(Sub(self.start_value, max_value), progress))
       ELSE LET progress == Div(Sub(Num(idx), warmup_steps),
                                Sub(Num(self.total_steps), warmup_steps))
            IN Add(max_value, Mul(Sub(Num(0), max_value), progress))

\* faulty variant: the decay progress counted from index 0 instead of from warmup_steps
LinearValueDecayFromZero(self, max_value, idx) ==
    LET warmup_steps == WarmupSteps(self)
    IN IF Lt(Num(idx), warmup_steps)
       THEN LET progress == Div(Num(idx), warmup_steps)
            IN Add(self.start_value, Mul(Sub(max_value, self.start_value), progress))
       ELSE LET progress == Div(Num(idx), Sub(Num(self.total_steps), warmup_steps))
            IN Add(max_value, Mul(Sub(Num(0), max_value), progress))

\* faulty variant: the decay progress divided by total_steps
LinearValueDecayOverTotal(self, max_value, idx) ==
    LET warmup_steps == WarmupSteps(self)
    IN IF Lt(Num(idx), warmup_steps)
       THEN LET progress == Div(Num(idx), warmup_steps)
            IN Add(self.start_value, Mul(Sub(max_value, self.start_value), progress))
       ELSE LET progress == Div(Sub(Num(idx), warmup_steps), Num(self.total_steps))
            IN Add(max_value, Mul(Sub(Num(0), max_value), progress))

\* the value LinearSchedule.step computes at index idx with max_value resolved
LinearValue(self, max_value, idx) ==
    LET warmup_steps == WarmupSteps(self)
    IN IF Lt(Num(idx), warmup_steps)
       THEN LET progress == Div(Num(idx), warmup_steps)
            IN Add(self.start_value, Mul(Sub(max_value, self.start_value), progress))
       ELSE LET progress == Div(Sub(Num(idx), warmup_steps),
                                Sub(Num(self.total_steps), warmup_steps))
            IN Add(max_value, Mul(Sub(Num(0), max_value), progress))

\* LinearSchedule.step divides by total_steps - warmup_steps in the decay branch
LinearRaises(self) ==
    /\ ~Lt(Num(self.idx), WarmupSteps(self))
    /\ IsZero(Sub(Num(self.total_steps), WarmupSteps(self)))

\* LinearSchedule.step(group): the schedule and the group afterwards
LinearStep(self, group) ==
    LET max_value == ResolveMaxValue(self, group)
        resolved == [self EXCEPT !.max_value = max_value]
    IN IF LinearRaises(self)
       THEN [ok |-> FALSE, sched |-> resolved, group |-> group, value |-> None]
       ELSE LET value == LinearValue(self, max_value, self.idx)
            IN [ok |-> TRUE,
                sched |-> [resolved EXCEPT !.idx = self.idx + 1],
                group |-> SetDeepAttr(group, self.path, value),
                value |-> value]

\* faulty variant: the cycle position derived from idx instead of num_epoch
CyclicalValueFromIdx(self, max_value, num_epoch) ==
    Sub(max_value,
        Mul(Div(Sub(max_value, self.min_value), Num(self.epochs_per_cycle - 1)),
            Num((self.idx \div self.steps_per_epoch) % self.epochs_per_cycle)))

\* the value CyclicalLinearSchedule.step computes in epoch num_epoch
CyclicalValue(self, max_value, num_epoch) ==
    Sub(max_value,
        Mul(Div(Sub(max_value, self.min_value), Num(self.epochs_per_cycle - 1)),
            Num(num_epoch % self.epochs_per_cycle)))

\* faulty variant: the epoch boundary tested with >= instead of >
NextNumEpochAtBoundary(self) ==
    IF self.idx >= (self.num_epoch + 1) * self.steps_per_epoch
    THEN self.num_epoch + 1
    ELSE self.num_epoch

\* the epoch counter after a CyclicalLinearSchedule.step call
NextNumEpoch(self) ==
    IF self.idx > (self.num_epoch + 1) * self.steps_per_epoch
    THEN self.num_epoch + 1
    ELSE self.num_epoch

\* CyclicalLinearSchedule.step(group): the schedule and the group afterwards
CyclicalStep(self, group) ==
    LET max_value == ResolveMaxValue(self, group)
        resolved == [self EXCEPT !.max_value = max_value]
    IN IF self.epochs_per_cycle - 1 = 0
       THEN [ok |-> FALSE, sched |-> resolved, group |-> group, value |-> None]
       ELSE LET value == CyclicalValue(self, max_value, self.num_epoch)
            IN [ok |-> TRUE,
                sched |-> [resolved EXCEPT !.num_epoch = NextNumEpoch(self),
                                           !.idx = self.idx + 1],
                group |-> SetDeepAttr(group, self.path, value),
                value |-> value]

\* schedule.step(group), dispatched on the schedule's class
ScheduleStep(self, group) ==
    IF self.kind = "LinearSchedule" THEN LinearStep(self, group)
    ELSE CyclicalStep(self, group)

\* ------------------------------------------------------------ inner optimizer
Wrappers == {1, 2}
ScheduleIds == {1, 2}

\* a group's "schedules" entry: absent, one schedule, or a list of schedules
NoSchedules == [key |-> FALSE, isList |-> FALSE, items |-> <<>>]
OneSchedule(s) == [key |-> TRUE, isList |-> FALSE, items |-> <<s>>]
ScheduleList(items) == [key |-> TRUE, isList |-> TRUE, items |-> items]

\* a parameter group of the inner optimizer (its parameters are not modelled)
ParamGroup(lr, weight_decay, schedules) ==
    [lr |-> lr, weight_decay |-> weight_decay, schedules |-> schedules]

\* the hyperparameters of every group, as an update of the inner optimizer reads them
Hyper(param_groups) ==
    [g \in DOMAIN param_groups |->
        [lr |-> param_groups[g].lr, weight_decay |-> param_groups[g].weight_decay]]

\* self.optim.step(closure=closure): an update that reads the groups' hyperparameters
OptimStep(o) ==
    [o EXCEPT !.state = [t |-> o.state.t + 1, seen |-> Hyper(o.param_groups)]]

\* self.optim.state_dict(): the state and a copy of every group
OptimStateDict(o) == [state |-> o.state, param_groups |-> o.param_groups]

\* self.optim.load_state_dict(sd): the state and the group list are replaced
OptimLoadStateDict(o, sd) == [state |-> sd.state, param_groups |-> sd.param_groups]

\* ------------------------------------------------------------ wrapper helpers
\* one schedule.step record of the history
Entry(g, before, r) ==
    [group |-> g,
     idx |-> before.idx,
     num_epoch |-> IF before.kind = "CyclicalLinearSchedule" THEN before.num_epoch ELSE 0,
     given_max |-> before.max_value,
     max_value |-> r.sched.max_value,
     value |-> r.value]

\* for schedule in group["schedules"]: schedule.step(group)
RECURSIVE StepSchedules(_, _, _)
StepSchedules(st, g, items) ==
    IF items = <<>> \/ ~st.ok THEN st
    ELSE LET s == Head(items)
             r == ScheduleStep(st.sched[s], st.groups[g])
             next == [ok |-> r.ok,
                      sched |-> [st.sched EXCEPT ![s] = r.sched],
                      groups |-> [st.groups EXCEPT ![g] = r.group],
                      log |-> IF r.ok
                              THEN [st.log EXCEPT ![s] = Append(@, Entry(g, st.sched[s], r))]
                              ELSE st.log]
         IN StepSchedules(next, g, Tail(items))

\* faulty variant: __init__ that makes the lists but steps no schedule
PrimeGroupsWithoutStep(st, g) ==
    [st EXCEPT !.groups =
        [h \in DOMAIN st.groups |->
            IF st.groups[h].schedules.key
            THEN [st.groups[h] EXCEPT !.schedules.isList = TRUE]
            ELSE st.groups[h]]]

\* the loop of ScheduledOptimizer.__init__ from group g on
RECURSIVE PrimeGroups(_, _)
PrimeGroups(st, g) ==
    IF g > Len(st.groups) \/ ~st.ok THEN st
    ELSE IF st.groups[g].schedules.key
         THEN LET listed == [st EXCEPT !.groups[g].schedules.isList = TRUE]
              IN PrimeGroups(StepSchedules(listed, g, listed.groups[g].schedules.items), g + 1)
         ELSE PrimeGroups(st, g + 1)

\* the loop of ScheduledOptimizer.step from group g on
RECURSIVE StepGroups(_, _)
StepGroups(st, g) ==
    IF g > Len(st.groups) \/ ~st.ok THEN st
    ELSE IF st.groups[g].schedules.key
         THEN StepGroups(StepSchedules(st, g, st.groups[g].schedules.items), g + 1)
         ELSE StepGroups(st, g + 1)

\* faulty variant: step() that steps the schedules before the inner optimizer
StepResultSchedulesFirst(o, ss, lg) ==
    LET st == StepGroups([ok |-> TRUE, sched |-> ss, groups |-> o.param_groups,
                          log |-> lg], 1)
        stepped == OptimStep([o EXCEPT !.param_groups = st.groups])
    IN [ok |-> st.ok, optim |-> stepped, sched |-> st.sched, log |-> st.log]

\* ScheduledOptimizer.step's effect on the optimizer, the schedules and the history
StepResult(o, ss, lg) ==
    LET stepped == OptimStep(o)
        st == StepGroups([ok |-> TRUE, sched |-> ss, groups |-> stepped.param_groups,
                          log |-> lg], 1)
    IN [ok |-> st.ok,
        optim |-> [stepped EXCEPT !.param_groups = st.groups],
        sched |-> st.sched,
        log |-> st.log]

\* [schedule.state_dict() for schedule in group.get("schedules")]
ScheduleStates(ss, items) == [i \in DOMAIN items |-> ScheduleStateDict(ss[items[i]])]

\* ScheduledOptimizer.state_dict's return value when every group has schedules
StateDictValue(o, ss) ==
    LET inner == OptimStateDict(o)
    IN [has |-> TRUE,
        optim |-> [inner EXCEPT !.param_groups =
                      [g \in DOMAIN inner.param_groups |->
                          [inner.param_groups[g] EXCEPT !.schedules = NoSchedules]]],
        lr |-> [g \in DOMAIN o.param_groups |-> o.param_groups[g].lr],
        schedules |-> [g \in DOMAIN o.param_groups |->
                          ScheduleStates(ss, o.param_groups[g].schedules.items)]]

Min(a, b) == IF a < b THEN a ELSE b

\* for schedule, schedule_state in zip(group["schedules"], group_schedules_state)
RECURSIVE LoadSchedules(_, _, _, _)
LoadSchedules(ss, items, states, i) ==
    IF i > Min(Len(items), Len(states)) THEN ss
    ELSE LoadSchedules([ss EXCEPT ![items[i]] = ScheduleLoadStateDict(@, states[i])],
                       items, states, i + 1)

\* the zip loop of ScheduledOptimizer.load_state_dict from group g on
RECURSIVE LoadGroups(_, _, _, _)
LoadGroups(st, optim_schedules, state, g) ==
    IF g > Min(Min(Len(st.groups), Len(optim_schedules)),
               Min(Len(state.schedules), Len(state.lr)))
    THEN st
    ELSE LET attached == [st.groups[g] EXCEPT !.schedules = optim_schedules[g]]
             loaded == LoadSchedules(st.sched, attached.schedules.items,
                                     state.schedules[g], 1)
         IN LoadGroups([sched |-> loaded,
                        groups |-> [st.groups EXCEPT ![g] = [attached EXCEPT !.lr = state.lr[g]]]],
                       optim_schedules, state, g + 1)

\* faulty variant: load_state_dict that captures the schedule lists after the inner
\* restore, when the groups carry none
LoadResultCapturedLate(o, ss, state) ==
    LET restored == OptimLoadStateDict(o, state.optim)
        optim_schedules == [g \in DOMAIN restored.param_groups |->
                               restored.param_groups[g].schedules]
        st == LoadGroups([sched |-> ss, groups |-> restored.param_groups],
                         optim_schedules, state, 1)
    IN [optim |-> [restored EXCEPT !.param_groups = st.groups], sched |-> st.sched]

\* ScheduledOptimizer.load_state_dict's effect when every group has schedules
LoadResult(o, ss, state) ==
    LET optim_schedules == [g \in DOMAIN o.param_groups |-> o.param_groups[g].schedules]
        restored == OptimLoadStateDict(o, state.optim)
        st == LoadGroups([sched |-> ss, groups |-> restored.param_groups],
                         optim_schedules, state, 1)
    IN [optim |-> [restored EXCEPT !.param_groups = st.groups], sched |-> st.sched]

\* ------------------------------------------------------------ configurations
\* the schedules a training setup attaches: the defaults; a second target field
\* without warmup; warmup over the whole run; a two-epoch cycle; a cycle whose
\* unset max_value resolves to the group's weight_decay; a one-epoch cycle
DefaultLinear == LinearSchedule(4, None, Num(0), "lr", TRUE, Rat(1, 2))
DecayOnly == LinearSchedule(2, Num(1), Num(0), "weight_decay", TRUE, Num(0))
WarmupOnly == LinearSchedule(2, None, Num(0), "lr", TRUE, Num(1))
TwoEpochCycle == CyclicalLinearSchedule(1, Num(1), Num(0), 2, "lr")
UnsetMaxCycle == CyclicalLinearSchedule(1, None, Rat(1, 10), 3, "weight_decay")
OneEpochCycle == CyclicalLinearSchedule(2, Num(1), Num(0), 1, "lr")

SchedConfigs ==
    { DefaultLinear, DecayOnly, WarmupOnly, TwoEpochCycle, UnsetMaxCycle, OneEpochCycle }

\* the two schedule objects of a setup that attaches both
ConfigPairs ==
    { <<DefaultLinear, DecayOnly>>, <<DefaultLinear, TwoEpochCycle>>,
      <<DefaultLinear, UnsetMaxCycle>>, <<TwoEpochCycle, DefaultLinear>>,
      <<UnsetMaxCycle, DecayOnly>> }

\* the "schedules" entries of the two parameter groups: a group without
\* schedules, a single schedule that is not a list, a schedule shared by both
\* groups, two schedules per group, an empty list
Layouts ==
    { <<ScheduleList(<<1>>), NoSchedules>>,
      <<OneSchedule(1), ScheduleList(<<2>>)>>,
      <<ScheduleList(<<1>>), ScheduleList(<<1>>)>>,
      <<ScheduleList(<<1, 2>>), ScheduleList(<<2, 1>>)>>,
      <<ScheduleList(<<1, 2>>), ScheduleList(<<>>)>> }

\* the schedules stepped directly: every combination of a few parameter values,
\* and the two worked examples of the documentation
DirectConfigs ==
    { LinearSchedule(t, m, s, "lr", TRUE, r) :
        t \in {1, 2, 4}, m \in {None, Num(1), Num(3)}, s \in {Num(0), Num(2)},
        r \in {Num(0), Rat(1, 10), Rat(1, 2), Num(1)} }
    \cup { CyclicalLinearSchedule(p, b[1], b[2], c, "lr") :
        p \in {1, 2}, c \in {1, 2, 3},
        b \in {<<Num(1), Num(0)>>, <<None, Num(0)>>, <<Num(1), Num(1)>>, <<Num(0), Num(1)>>} }
    \cup { LinearSchedule(100, Num(1), Num(0), "lr", TRUE, Rat(1, 10)),
           CyclicalLinearSchedule(1, Rat(1, 100), Rat(1, 1000), 10, "lr") }

\* the inner optimizer as the training setup builds it
InitialGroups(first, second) ==
    << ParamGroup(Rat(1, 2), Rat(1, 10), first), ParamGroup(Rat(1, 4), Rat(1, 10), second) >>

InitialOptim(first, second) ==
    [state |-> [t |-> 0, seen |-> <<>>], param_groups |-> InitialGroups(first, second)]

NoState ==
    [has |-> FALSE,
     optim |-> [state |-> [t |-> 0, seen |-> <<>>], param_groups |-> <<>>],
     lr |-> <<>>,
     schedules |-> <<>>]

\* the number of times schedule s appears in the groups' schedule lists
RECURSIVE Count(_, _)
Count(items, s) ==
    IF items = <<>> THEN 0
    ELSE (IF Head(items) = s THEN 1 ELSE 0) + Count(Tail(items), s)

Attachments(param_groups, s) ==
    Count(param_groups[1].schedules.items, s) + Count(param_groups[2].schedules.items, s)

NoRoundTrip ==
    [by |-> 0,
     since |-> [w \in Wrappers |-> -1],
     fresh |-> [w \in Wrappers |-> FALSE],
     mark |-> [w \in Wrappers |-> [s \in ScheduleIds |-> 0]]]

InitHistory ==
    /\ built = [w \in Wrappers |-> FALSE]
    /\ saved = NoState
    /\ exc = ""
    /\ log = [w \in Wrappers |-> [s \in ScheduleIds |-> <<>>]]
    /\ calls = [w \in Wrappers |-> [steps |-> 0, saves |-> 0, loads |-> 0]]
    /\ rt = NoRoundTrip

\* two identically configured inner optimizers, each with its own schedule objects
Init ==
    /\ \E c \in SchedConfigs \X SchedConfigs, layout \in Layouts :
          /\ IF Attachments(InitialGroups(layout[1], layout[2]), 2) = 0
             THEN c[2] = c[1]
             ELSE c \in ConfigPairs
          /\ sched = [w \in Wrappers |-> c]
          /\ optim = [w \in Wrappers |-> InitialOptim(layout[1], layout[2])]
    /\ InitHistory

\* ------------------------------------------------------------ operations
Marks(w) == [s \in ScheduleIds |-> Len(log[w][s])]

\* ScheduledOptimizer(optim[w])
Construct(w) ==
    /\ exc = ""
    /\ ~built[w]
    /\ LET st == PrimeGroups([ok |-> TRUE, sched |-> sched[w],
                              groups |-> optim[w].param_groups, log |-> log[w]], 1)
       IN /\ optim' = [optim EXCEPT ![w].param_groups = st.groups]
          /\ sched' = [sched EXCEPT ![w] = st.sched]
          /\ log' = [log EXCEPT ![w] = st.log]
          /\ built' = [built EXCEPT ![w] = st.ok]
          /\ exc' = IF st.ok THEN "" ELSE "ZeroDivisionError"
    /\ UNCHANGED <<saved, calls, rt>>

\* wrapper.step()
Step(w) ==
    /\ exc = ""
    /\ built[w]
    /\ calls[w].steps < MaxSteps
    /\ LET r == StepResult(optim[w], sched[w], log[w])
       IN /\ optim' = [optim EXCEPT ![w] = r.optim]
          /\ sched' = [sched EXCEPT ![w] = r.sched]
          /\ log' = [log EXCEPT ![w] = r.log]
          /\ exc' = IF r.ok THEN "" ELSE "ZeroDivisionError"
          /\ calls' = IF r.ok THEN [calls EXCEPT ![w].steps = @ + 1] ELSE calls
          /\ rt' = IF r.ok /\ rt.since[w] >= 0
                   THEN [rt EXCEPT !.since[w] = @ + 1]
                   ELSE rt
    /\ UNCHANGED <<built, saved>>

\* wrapper.state_dict(): iterating group.get("schedules") raises TypeError for a
\* group that has no "schedules" entry
StateDict(w) ==
    /\ exc = ""
    /\ built[w]
    /\ calls[1].saves + calls[2].saves < MaxSaves
    /\ IF \E g \in DOMAIN optim[w].param_groups : ~optim[w].param_groups[g].schedules.key
       THEN /\ exc' = "TypeError"
            /\ UNCHANGED <<saved, calls, rt>>
       ELSE /\ saved' = StateDictValue(optim[w], sched[w])
            /\ calls' = [calls EXCEPT ![w].saves = @ + 1]
            /\ rt' = [NoRoundTrip EXCEPT !.by = w, !.since[w] = 0, !.mark[w] = Marks(w)]
            /\ exc' = ""
    /\ UNCHANGED <<optim, sched, built, log>>

\* wrapper.load_state_dict(saved): group["schedules"] raises KeyError for a group
\* that has no "schedules" entry
LoadStateDict(w) ==
    /\ exc = ""
    /\ built[w]
    /\ saved.has
    /\ calls[1].loads + calls[2].loads < MaxLoads
    /\ IF \E g \in DOMAIN optim[w].param_groups : ~optim[w].param_groups[g].schedules.key
       THEN /\ exc' = "KeyError"
            /\ UNCHANGED <<optim, sched, calls, rt>>
       ELSE LET r == LoadResult(optim[w], sched[w], saved)
            IN /\ optim' = [optim EXCEPT ![w] = r.optim]
               /\ sched' = [sched EXCEPT ![w] = r.sched]
               /\ calls' = [calls EXCEPT ![w].loads = @ + 1]
               /\ rt' = IF w = rt.by THEN NoRoundTrip
                        ELSE [rt EXCEPT !.since[w] = 0,
                                        !.fresh[w] = (calls[w].steps = 0 /\ calls[w].loads = 0),
                                        !.mark[w] = Marks(w)]
               /\ exc' = ""
    /\ UNCHANGED <<built, saved, log>>

\* wrapper 1 is the run that saves its state, wrapper 2 the run that resumes from it
Next ==
    \/ \E w \in Wrappers : Construct(w) \/ Step(w)
    \/ StateDict(1)
    \/ LoadStateDict(2)

Spec == Init /\ [][Next]_vars

\* ------------------------------------------------------------ schedules alone
\* a schedule and a parameter group of an optimizer that is not wrapped
InitDirect ==
    /\ \E c \in DirectConfigs :
          /\ sched = [w \in Wrappers |-> <<c, c>>]
          /\ optim = [w \in Wrappers |-> InitialOptim(NoSchedules, NoSchedules)]
    /\ InitHistory

StepLimit(self) ==
    IF self.kind = "LinearSchedule" THEN self.total_steps + Overrun
    ELSE self.steps_per_epoch * (self.epochs_per_cycle + 1) + Overrun

\* sched[1][1].step(optim[1].param_groups[1])
DirectStep ==
    /\ exc = ""
    /\ sched[1][1].idx < StepLimit(sched[1][1])
    /\ LET st == StepSchedules([ok |-> TRUE, sched |-> sched[1],
                                groups |-> optim[1].param_groups, log |-> log[1]],
                               1, <<1>>)
       IN /\ optim' = [optim EXCEPT ![1].param_groups = st.groups]
          /\ sched' = [sched EXCEPT ![1] = st.sched]
          /\ log' = [log EXCEPT ![1] = st.log]
          /\ exc' = IF st.ok THEN "" ELSE "ZeroDivisionError"
    /\ UNCHANGED <<built, saved, calls, rt>>

NextDirect == DirectStep

SpecDirect == InitDirect /\ [][NextDirect]_vars

\* ------------------------------------------------------------ claims on one schedule
\* the schedule stepped directly, its step history and the group it writes
Self == sched[1][1]
History == log[1][1]
Target == optim[1].param_groups[1]
IsLinear == Self.kind = "LinearSchedule"
IsCyclical == Self.kind = "CyclicalLinearSchedule"
InWarmup(idx) == Lt(Num(idx), WarmupSteps(Self))

\* C6 as stated: during warmup the value written at idx + 1 is never below the
\* value written at idx, and the value written at idx = 0 is start_value.
C6_WarmupNonDecreasing ==
    IsLinear =>
        /\ \A n \in 1..(Len(History) - 1) :
              (History[n + 1].idx = History[n].idx + 1 /\ InWarmup(History[n + 1].idx))
                  => Le(History[n].value, History[n + 1].value)
        /\ \A n \in 1..Len(History) :
              (History[n].idx = 0 /\ InWarmup(0)) => History[n].value = Self.start_value

\* C6 amended: during warmup the value moves from start_value toward max_value:
\* it does not decrease when max_value >= start_value and does not increase when
\* max_value <= start_value; the value written at idx = 0 is start_value.
C6_WarmupTowardMax ==
    IsLinear =>
        /\ \A n \in 1..(Len(History) - 1) :
              (History[n + 1].idx = History[n].idx + 1 /\ InWarmup(History[n + 1].idx))
                  => /\ Le(Self.start_value, Self.max_value)
                          => Le(History[n].value, History[n + 1].value)
                     /\ Le(Self.max_value, Self.start_value)
                          => Le(History[n + 1].value, History[n].value)
        /\ \A n \in 1..Len(History) :
              (History[n].idx = 0 /\ InWarmup(0)) => History[n].value = Self.start_value

\* two consecutive warmup steps that raised the value from start_value
C6_Witness ==
    /\ IsLinear
    /\ Len(History) >= 2
    /\ InWarmup(History[2].idx)
    /\ History[1].value = Self.start_value
    /\ Lt(History[1].value, History[2].value)

\* C7: the step made when idx equals warmup_steps writes max_value, and
\* max_value is the constructor argument or, when that is unset, the group's
\* field value at the first step, and no later step changes it.  (The history
\* holds the steps that wrote a value: with warmup_rate = 1 the step at idx =
\* warmup_steps = total_steps raises ZeroDivisionError and writes nothing.)
C7_PeakIsMaxValue ==
    IsLinear =>
        \A n \in 1..Len(History) :
            /\ Num(History[n].idx) = WarmupSteps(Self) => History[n].value = Self.max_value
            /\ History[n].max_value = Self.max_value
            /\ History[n].given_max =
                  IF n = 1 /\ History[n].given_max = None THEN None ELSE Self.max_value
            /\ (n = 1 /\ History[n].given_max = None)
                  => Self.max_value = InitialGroups(NoSchedules, NoSchedules)[1].lr

\* a schedule built without max_value has stepped at idx = warmup_steps > 0 and
\* the group holds the value it read at its first step
C7_Witness ==
    /\ IsLinear
    /\ Len(History) >= 2
    /\ History[1].given_max = None
    /\ Num(History[Len(History)].idx) = WarmupSteps(Self)
    /\ History[Len(History)].idx > 0
    /\ Target.lr = InitialGroups(NoSchedules, NoSchedules)[1].lr

\* the documentation's example: total_steps=100, warmup_rate=0.1, max_value=1.0
IsDecayExample ==
    /\ IsLinear
    /\ Self.total_steps = 100
    /\ Self.warmup_rate = Rat(1, 10)
    /\ Self.max_value = Num(1)

\* within half a unit of the fourth decimal of 0.0101
Near0101(v) == Le(Rat(1005, 100000), v) /\ Le(v, Rat(1015, 100000))

\* C8 as stated: in the example the step made at idx = 90 writes 1.0 and the
\* step made at idx = 99 writes approximately 0.0101, not 0.
C8_DecayExampleAsStated ==
    IsDecayExample =>
        \A n \in 1..Len(History) :
            /\ History[n].idx = 90 => History[n].value = Num(1)
            /\ History[n].idx = 99 => (Near0101(History[n].value) /\ ~IsZero(History[n].value))

\* C8 amended: in the example the step made at idx = 10 (warmup_steps) writes
\* 1.0, the step made at idx = 90 writes 1/9 and the step made at idx = 99
\* writes 1/90 (about 0.0111, not 0), as the decay formula gives.
C8_DecayExample ==
    IsDecayExample =>
        \A n \in 1..Len(History) :
            /\ History[n].idx = 10 => History[n].value = Num(1)
            /\ History[n].idx = 90 => History[n].value = Rat(1, 9)
            /\ History[n].idx = 99 => History[n].value = Rat(1, 90)
            /\ History[n].idx >= 10 =>
                  History[n].value =
                      Mul(Self.max_value, Sub(Num(1), Rat(History[n].idx - 10, 100 - 10)))

\* the example schedule has made its step at idx = 99
C8_Witness ==
    /\ IsDecayExample
    /\ Len(History) >= 100
    /\ History[100].idx = 99
    /\ Target.lr = History[Len(History)].value

\* C9: with epochs_per_cycle >= 2 every step writes max_value - ((max_value -
\* min_value) / (epochs_per_cycle - 1)) * (num_epoch mod epochs_per_cycle):
\* max_value at cycle position 0, min_value at position epochs_per_cycle - 1;
\* a step increments num_epoch, by one, exactly when idx > (num_epoch + 1) *
\* steps_per_epoch at that call; the step after a crossing into an epoch
\* divisible by epochs_per_cycle writes max_value again.
C9_CyclicalCycle ==
    (IsCyclical /\ Self.epochs_per_cycle >= 2) =>
        /\ \A n \in 1..Len(History) :
              LET e == History[n]
                  position == e.num_epoch % Self.epochs_per_cycle
                  slope == Div(Sub(Self.max_value, Self.min_value),
                               Num(Self.epochs_per_cycle - 1))
                  after == IF n < Len(History) THEN History[n + 1].num_epoch
                           ELSE Self.num_epoch
              IN /\ e.idx = n - 1
                 /\ e.value = Sub(Self.max_value, Mul(slope, Num(position)))
                 /\ position = 0 => e.value = Self.max_value
                 /\ position = Self.epochs_per_cycle - 1 => e.value = Self.min_value
                 /\ after = IF e.idx > (e.num_epoch + 1) * Self.steps_per_epoch
                            THEN e.num_epoch + 1 ELSE e.num_epoch
                 /\ (n > 1 /\ e.num_epoch = History[n - 1].num_epoch + 1
                           /\ e.num_epoch % Self.epochs_per_cycle = 0)
                        => e.value = Self.max_value
        /\ Len(History) > 0 => Target.lr = History[Len(History)].value

\* the documentation's example has gone through a whole cycle: 0.001 in epoch 9
\* and 0.01 again on the step after the crossing into epoch 10
C9_Witness ==
    /\ IsCyclical
    /\ Self.epochs_per_cycle = 10
    /\ \E n \in 2..Len(History) :
          /\ History[n].num_epoch = 10
          /\ History[n - 1].num_epoch = 9
          /\ History[n].value = Rat(1, 100)
          /\ History[n - 1].value = Rat(1, 1000)

\* ------------------------------------------------------------ claims on the wrapper
Groups(w) == optim[w].param_groups
Items(w, g) == Groups(w)[g].schedules.items
Attached(w, s) == Attachments(Groups(w), s)

\* the groups schedule s is stepped for in one pass, in attachment order
AttachOrder(w, s) ==
    [i \in 1..Count(Items(w, 1), s) |-> 1] \o [i \in 1..Count(Items(w, 2), s) |-> 2]

\* no later schedule of the group's list writes the same field
LastWriter(w, g, i) ==
    \A j \in DOMAIN Items(w, g) :
        j > i => sched[w][Items(w, g)[j]].path # sched[w][Items(w, g)[i]].path

\* the value a schedule computes at idx = 0, its max_value being resolved
Idx0Value(self) ==
    IF self.kind = "LinearSchedule" /\ Lt(Num(0), WarmupSteps(self))
    THEN self.start_value
    ELSE self.max_value

\* the wrapper has been constructed and nothing has been called on it (a call
\* that raised has ended the program)
Primed(w) == built[w] /\ calls[w].steps = 0 /\ calls[w].loads = 0 /\ exc = ""

Unchanged(w, g) == Groups(w)[g] = InitialGroups(NoSchedules, NoSchedules)[g]

\* C2 as stated: right after construction every group with a "schedules" entry
\* holds a list, each of its schedules has been stepped once (idx = 1 when
\* attached to one group) and the group's target field holds the schedule's
\* idx = 0 value; a group without the entry is unchanged.
C2_PrimingAsStated ==
    \A w \in Wrappers : Primed(w) =>
        \A g \in DOMAIN Groups(w) :
            IF Groups(w)[g].schedules.key
            THEN /\ Groups(w)[g].schedules.isList
                 /\ \A i \in DOMAIN Items(w, g) :
                       LET self == sched[w][Items(w, g)[i]]
                       IN /\ Attached(w, Items(w, g)[i]) = 1 => self.idx = 1
                          /\ Groups(w)[g][self.path] = Idx0Value(self)
            ELSE Unchanged(w, g)

\* C2 amended: right after construction every group with a "schedules" entry
\* holds a list and every schedule has been stepped once per attachment (idx =
\* number of attachments); the group's target field holds the idx = 0 value of
\* a schedule that is attached once and is not followed in the group's list by
\* a schedule with the same target field; a group without the entry is unchanged.
C2_Priming ==
    \A w \in Wrappers : Primed(w) =>
        \A g \in DOMAIN Groups(w) :
            IF Groups(w)[g].schedules.key
            THEN /\ Groups(w)[g].schedules.isList
                 /\ \A i \in DOMAIN Items(w, g) :
                       LET self == sched[w][Items(w, g)[i]]
                       IN /\ self.idx = Attached(w, Items(w, g)[i])
                          /\ (Attached(w, Items(w, g)[i]) = 1 /\ LastWriter(w, g, i))
                                => Groups(w)[g][self.path] = Idx0Value(self)
            ELSE Unchanged(w, g)

\* a wrapper just built over a single schedule given without a list, whose
\* warmup has started, and a second group with its own schedule
C2_Witness ==
    \E w \in Wrappers :
        /\ Primed(w)
        /\ Len(Items(w, 1)) = 1
        /\ Groups(w)[1].schedules.isList
        /\ sched[w][1].kind = "LinearSchedule"
        /\ sched[w][1].idx = 1
        /\ Groups(w)[1].lr = sched[w][1].start_value
        /\ sched[w][1].max_value = InitialGroups(NoSchedules, NoSchedules)[1].lr
        /\ sched[w][2].kind = "CyclicalLinearSchedule"
        /\ Groups(w)[2][sched[w][2].path] = sched[w][2].max_value

\* the wrapper has been constructed and only stepped, and the program runs
Clean(w) == built[w] /\ calls[w].loads = 0 /\ exc = ""

\* what C3 says of every wrapper that was only stepped k times: k inner
\* updates; every schedule stepped once per attachment per pass, in attachment
\* order, from index 0
SteppedInOrder(w) ==
    LET k == calls[w].steps
    IN /\ optim[w].state.t = k
       /\ \A s \in ScheduleIds :
             LET order == AttachOrder(w, s)
             IN /\ sched[w][s].idx = (k + 1) * Len(order)
                /\ Len(log[w][s]) = (k + 1) * Len(order)
                /\ \A n \in 1..Len(log[w][s]) :
                      /\ log[w][s][n].idx = n - 1
                      /\ log[w][s][n].group = order[((n - 1) % Len(order)) + 1]

\* the k-th inner update read the value schedule Items(w, g)[i] computed for
\* index k - 1, and the group now holds the value it computed for index k
InnerSeesPrevious(w, g, i) ==
    LET k == calls[w].steps
        s == Items(w, g)[i]
        path == sched[w][s].path
    IN /\ sched[w][s].idx = k + 1
       /\ Groups(w)[g][path] = log[w][s][k + 1].value
       /\ k >= 1 => optim[w].state.seen[g][path] = log[w][s][k].value

\* C3 as stated: in every step() the inner update comes first, then every
\* schedule is stepped once per attachment in attachment order; so a schedule
\* attached to one group has idx = k + 1 after k calls and the k-th inner update
\* sees the value the schedule computed for index k - 1.
C3_StepOrderAsStated ==
    \A w \in Wrappers : Clean(w) =>
        /\ SteppedInOrder(w)
        /\ \A g \in DOMAIN Groups(w) : \A i \in DOMAIN Items(w, g) :
              Attached(w, Items(w, g)[i]) = 1 => InnerSeesPrevious(w, g, i)

\* C3 amended: as stated, the last part for a schedule that is attached to one
\* group and is not followed in that group's list by a schedule with the same
\* target field.
C3_StepOrder ==
    \A w \in Wrappers : Clean(w) =>
        /\ SteppedInOrder(w)
        /\ \A g \in DOMAIN Groups(w) : \A i \in DOMAIN Items(w, g) :
              (Attached(w, Items(w, g)[i]) = 1 /\ LastWriter(w, g, i))
                  => InnerSeesPrevious(w, g, i)

\* two step() calls on a wrapper whose first schedule is attached once and warms
\* up: the second inner update saw the value computed for index 1, which is not
\* the value the group holds now
C3_Witness ==
    \E w \in Wrappers :
        /\ Clean(w)
        /\ calls[w].steps = 2
        /\ Attached(w, 1) = 1
        /\ sched[w][1].kind = "LinearSchedule"
        /\ sched[w][1].idx = 3
        /\ optim[w].state.seen[1].lr = log[w][1][2].value
        /\ optim[w].state.seen[1].lr # Groups(w)[1].lr

\* wrapper b, freshly constructed, loaded what wrapper a returned from
\* state_dict(), and both have made m step() calls since
RoundTrip(a, b, m) ==
    /\ exc = ""
    /\ a # b
    /\ rt.by = a
    /\ rt.fresh[b]
    /\ rt.since[a] = m
    /\ rt.since[b] = m

LinearOnly(w) ==
    \A g \in DOMAIN Groups(w) : \A i \in DOMAIN Items(w, g) :
        sched[w][Items(w, g)[i]].kind = "LinearSchedule"

\* C1: when the groups carry only LinearSchedule instances, a fresh identically
\* configured wrapper that loads the state saved after n steps has, after m >= 1
\* further steps of both wrappers, the same target field values and the same
\* schedule indices as the wrapper that saved.
C1_LinearRoundTrip ==
    \A a \in Wrappers, b \in Wrappers :
        (LinearOnly(a) /\ \E m \in 1..(calls[a].steps) : RoundTrip(a, b, m)) =>
            \A g \in DOMAIN Groups(a) : \A i \in DOMAIN Items(a, g) :
                LET s == Items(a, g)[i]
                IN /\ sched[a][s].idx = sched[b][s].idx
                   /\ Groups(a)[g][sched[a][s].path] = Groups(b)[g][sched[b][s].path]

\* a wrapper saved after two steps, a fresh one loaded the state, and both made
\* one more step: the loaded wrapper's schedule is at the saver's index
C1_Witness ==
    \E a \in Wrappers, b \in Wrappers :
        /\ LinearOnly(a)
        /\ RoundTrip(a, b, 1)
        /\ calls[a].steps = 3
        /\ calls[b].steps = 1
        /\ Len(Items(a, 1)) > 0
        /\ sched[b][1].idx = sched[a][1].idx
        /\ sched[b][1].idx > 2
        /\ Groups(a)[1].lr = Groups(b)[1].lr

\* C4: load_state_dict(saved) puts the saved inner state in place, re-attaches
\* to every restored group the schedule list it carried before the call, gives
\* the i-th schedule of group g the idx of saved.schedules[g][i], writes
\* saved.lr[g] into group g, and steps no schedule.
C4_LoadRestoresByPosition ==
    [][\A w \in Wrappers : (LoadStateDict(w) /\ exc' = "") =>
          /\ optim'[w].state = saved.optim.state
          /\ DOMAIN optim'[w].param_groups = DOMAIN saved.optim.param_groups
          /\ \A g \in DOMAIN optim'[w].param_groups :
                /\ optim'[w].param_groups[g].schedules = optim[w].param_groups[g].schedules
                /\ optim'[w].param_groups[g].lr = saved.lr[g]
                /\ optim'[w].param_groups[g].weight_decay =
                      saved.optim.param_groups[g].weight_decay
                /\ \A i \in DOMAIN Items(w, g) :
                      sched'[w][Items(w, g)[i]].idx = saved.schedules[g][i].idx
          /\ \A s \in ScheduleIds :
                sched'[w][s] = [sched[w][s] EXCEPT !.idx = sched'[w][s].idx]
          /\ log' = log]_vars

\* a wrapper that had made no step has loaded a state saved after two: its
\* schedule is ahead of the single priming step and its history has not grown
C4_Witness ==
    \E w \in Wrappers :
        /\ exc = ""
        /\ calls[w].loads = 1
        /\ calls[w].steps = 0
        /\ rt.since[w] = 0
        /\ Len(Items(w, 1)) > 0
        /\ Attached(w, Items(w, 1)[1]) = 1
        /\ sched[w][Items(w, 1)[1]].idx = 3
        /\ Len(log[w][Items(w, 1)[1]]) = 1
        /\ optim[w].state.t = 2
        /\ Groups(w)[1].lr = saved.lr[1]

\* C5: state_dict() returns {optim, lr, schedules}: the inner state dict with
\* "schedules" removed from every group copy, every group's lr, and the states
\* ({idx}) of every group's schedules in attachment order; it changes no group
\* and no schedule.
C5_StateDictSnapshot ==
    [][\A w \in Wrappers : StateDict(w) =>
          /\ exc' = ""
          /\ saved'.has
          /\ saved'.optim.state = optim[w].state
          /\ DOMAIN saved'.optim.param_groups = DOMAIN Groups(w)
          /\ \A g \in DOMAIN Groups(w) :
                /\ saved'.optim.param_groups[g].lr = Groups(w)[g].lr
                /\ saved'.optim.param_groups[g].weight_decay = Groups(w)[g].weight_decay
                /\ ~saved'.optim.param_groups[g].schedules.key
                /\ saved'.lr[g] = Groups(w)[g].lr
                /\ DOMAIN saved'.schedules[g] = DOMAIN Items(w, g)
                /\ \A i \in DOMAIN Items(w, g) :
                      saved'.schedules[g][i] = [idx |-> sched[w][Items(w, g)[i]].idx]
          /\ UNCHANGED <<optim, sched, log>>]_vars

\* the first schedule.step call schedule s made in wrapper w after the save or
\* the load of the round trip
NextEntry(w, s) == log[w][s][rt.mark[w][s] + 1]

IsCycle(w, s) == Attached(w, s) > 0 /\ sched[w][s].kind = "CyclicalLinearSchedule"

\* the saved state holds nothing but an idx for each schedule
OnlyIdxSaved ==
    \A g \in DOMAIN saved.schedules : \A i \in DOMAIN saved.schedules[g] :
        DOMAIN saved.schedules[g][i] = {"idx"}

\* the idx saved for schedule s: that of its first place in the groups' lists
SavedIdx(w, s) ==
    LET g == AttachOrder(w, s)[1]
        i == CHOOSE j \in DOMAIN Items(w, g) : Items(w, g)[j] = s
    IN saved.schedules[g][i].idx

\* what C10 says of a fresh cyclical schedule s of wrapper b that loaded the
\* state wrapper a saved: it has the saved idx and num_epoch = 0, and its next
\* step writes max_value
RestoredAtEpochZero(a, b, s) ==
    /\ RoundTrip(a, b, 0) =>
          /\ OnlyIdxSaved
          /\ sched[b][s].idx = SavedIdx(b, s)
          /\ sched[b][s].num_epoch = 0
    /\ RoundTrip(a, b, 1) =>
          /\ NextEntry(b, s).idx = SavedIdx(b, s)
          /\ NextEntry(b, s).num_epoch = 0
          /\ NextEntry(b, s).value = sched[b][s].max_value

\* C10 as stated: only idx is saved and loaded, so a fresh cyclical schedule
\* that loads a state saved in epoch e has the saved idx and num_epoch = 0; its
\* next step writes max_value, which differs from the value the saving run
\* writes next whenever e mod epochs_per_cycle # 0.
C10_CyclicalRestoreAsStated ==
    \A a \in Wrappers, b \in Wrappers, s \in ScheduleIds :
        IsCycle(b, s) =>
            /\ RestoredAtEpochZero(a, b, s)
            /\ (RoundTrip(a, b, 1)
                  /\ NextEntry(a, s).num_epoch % sched[a][s].epochs_per_cycle # 0)
                  => NextEntry(a, s).value # NextEntry(b, s).value

\* C10 amended: as stated, the two next values differing whenever e mod
\* epochs_per_cycle # 0 and max_value # min_value.
C10_CyclicalRestore ==
    \A a \in Wrappers, b \in Wrappers, s \in ScheduleIds :
        IsCycle(b, s) =>
            /\ RestoredAtEpochZero(a, b, s)
            /\ (RoundTrip(a, b, 1)
                  /\ NextEntry(a, s).num_epoch % sched[a][s].epochs_per_cycle # 0
                  /\ sched[a][s].max_value # sched[a][s].min_value)
                  => NextEntry(a, s).value # NextEntry(b, s).value

\* a state saved in epoch 1 of a two-epoch cycle was loaded by a fresh wrapper:
\* the saving run wrote min_value next, the restored one max_value
C10_Witness ==
    \E a \in Wrappers, b \in Wrappers, s \in ScheduleIds :
        /\ IsCycle(b, s)
        /\ RoundTrip(a, b, 1)
        /\ NextEntry(a, s).num_epoch = 1
        /\ sched[a][s].epochs_per_cycle = 2
        /\ NextEntry(a, s).value = sched[a][s].min_value
        /\ NextEntry(b, s).value = sched[b][s].max_value
        /\ sched[b][s].max_value # sched[b][s].min_value
        /\ NextEntry(b, s).idx = NextEntry(a, s).idx

====
